---- MODULE Spec2Model ----
(***************************************************************************)
(* A model of createStore (src/src/storage/createStore.ts): a namespaced,  *)
(* lazily initialised, optionally encrypted facade over chrome.storage.    *)
(*                                                                         *)
(* Every asynchronous store operation is a chain of host calls.  One       *)
(* action of the model is one host call together with the synchronous code *)
(* (and the encrypt/decrypt awaits) that runs until the next host call is  *)
(* issued.  Under Spec one operation runs at a time and no other writer    *)
(* touches host storage while it runs.  SpecErr lets host calls be         *)
(* rejected, SpecConc interleaves two operations at their awaits, SpecPair *)
(* runs two stores on one area and SpecHook a component that renders       *)
(* store.use.                                                              *)
(***************************************************************************)
EXTENDS Integers, Sequences, FiniteSets, TLC

----------------------------------------------------------------------------
(* Bounds and input sets *)

\* number of API calls on a store (initialize, get, set, all, subscribe,
\* unsubscribe) and of foreign writes in one behaviour
MaxOps == 3


\* the JavaScript value undefined: an absent property, a missing argument
Undefined == "undefined"

PlainValues == {"v1", "v2"}

JsValues == PlainValues \cup {Undefined}

\* the rejection of security.decrypt on a value that is no ciphertext
DecryptError == "DecryptError"

Areas == {"local", "sync"}

StoreSlots == {"A"}

\* the slots of the runs with two stores
PairSlots == {"A", "B"}

StoreIds == {"p"}

\* the storage areas stores are created on (createLocalStore)
StoreAreas == {"local"}

\* the `defaults` objects a store is created with; the second one declares a
\* logical key that is spelled like the actual key of the first
DefaultsChoices ==
    { ("t" :> "v1") @@ ("u" :> "v2"),
      ("t" :> "v1") @@ ("p:t" :> "v2") }

LogicalKeys == UNION {DOMAIN d : d \in DefaultsChoices}

\* a key of host storage no store owns
ForeignKey == "x"

\* the stores of the two-store runs, <<storeId, defaults>>: the first two
\* spell the same actual key, "p:q:t", with different store ids
PairChoices ==
    { <<"p", "q:t" :> "v1">>, <<"p:q", "t" :> "v2">>, <<"q", "t" :> "v1">> }

\* the store ids among them that hold no colon
ColonFreeIds == {"p", "q"}

HostKeys ==
    {id \o ":" \o k : id \in StoreIds, k \in LogicalKeys}
        \cup LogicalKeys \cup {ForeignKey}
        \cup UNION {{c[1] \o ":" \o k : k \in DOMAIN c[2]} : c \in PairChoices}

\* the closures subscribe() can create in one behaviour
ListenerIds == {1, 2}

CallIds == {1}

\* the operations that can be in flight at once in the concurrent runs
ConcurrentCallIds == {1, 2}

\* how a host call can end: TRUE, it resolves.  Under Spec every host call
\* resolves; a rejected call (FALSE) ends the operation in "failed".
HostOutcomes == {TRUE}

\* the outcomes of a host call in the runs with host errors
HostOutcomesWithErrors == {TRUE, FALSE}

----------------------------------------------------------------------------
(* JavaScript objects *)

EmptyObj == [k \in {} |-> Undefined]

\* obj[k]: undefined when obj has no property k
Prop(obj, k) == IF k \in DOMAIN obj THEN obj[k] ELSE Undefined

----------------------------------------------------------------------------
(* The Security collaborator (src/storage/Security, not part of src/):     *)
(* decrypt(encrypt(v)) = v, and decrypting an absent value is absent.      *)

Encrypt(v) == "enc(" \o v \o ")"

Decrypt(c) ==
    IF c = Undefined THEN Undefined
    ELSE IF \E v \in JsValues : Encrypt(v) = c
         THEN CHOOSE v \in JsValues : Encrypt(v) = c
         ELSE DecryptError

----------------------------------------------------------------------------
(* chrome.storage[area]: get(keys), set(items), remove(keys)               *)

\* get(keys) resolves to an object holding the keys that are present
HostGet(st, ks) == [k \in {h \in ks : st[h] # Undefined} |-> st[k]]

\* set(items): a property whose value is undefined is not serialised
HostSet(st, items) ==
    [h \in HostKeys |->
        IF h \in DOMAIN items /\ items[h] # Undefined THEN items[h] ELSE st[h]]

HostRemove(st, ks) == [h \in HostKeys |-> IF h \in ks THEN Undefined ELSE st[h]]

\* the changes object of chrome.storage.onChanged for a write old -> new
Changes(old, new) ==
    [h \in {k \in HostKeys : old[k] # new[k]} |->
        [oldValue |-> old[h], newValue |-> new[h]]]

----------------------------------------------------------------------------
(* createStore: the closure's constants *)

\* a slip: the logical key is used as it is
ActualKeyBare(storeId, key) == key

\* `${storeId}:${key}`
ActualKey(storeId, key) == storeId \o ":" \o key

Keys(cfg) == DOMAIN cfg.defaults

ActualKeys(cfg) == {ActualKey(cfg.storeId, k) : k \in Keys(cfg)}

\* a slip: the value is written as it is, encrypted store or not
StoredFormPlain(cfg, v) == v

\* isEncrypted ? await security.encrypt(v) : v
StoredForm(cfg, v) == IF cfg.isEncrypted THEN Encrypt(v) ELSE v

NoStore ==
    [made |-> FALSE, storeId |-> "-", defaults |-> EmptyObj, area |-> "-",
     isEncrypted |-> FALSE]

----------------------------------------------------------------------------
VARIABLES
    passwordSet,     \* process.env.EXTENSION_STORAGE_PASSWORD is configured
    stores,          \* slot -> the closure createStore returned, or NoStore
    hasInitialized,  \* slot -> the closure's hasInitialized flag
    storage,         \* area -> host key -> stored value, Undefined if absent
    calls,           \* call id -> the store operation running or last run
    prev,            \* the operation completed just before the current one
    listeners,       \* listener id -> the sub closure subscribe created
    registry,        \* the listeners chrome.storage.onChanged holds
    delivered,       \* listener id -> the DataChange values its callback got
    order,           \* listener id -> the events' numbers, per callback call
    hook,            \* the component that renders store.use(key)
    tasks,           \* listener runs awaiting their decryptions
    lastEvent,       \* the last change event the host dispatched
    last,            \* the API call or step this state results from
    nOps             \* API calls and foreign writes so far

vars ==
    <<passwordSet, stores, hasInitialized, storage, calls, prev, listeners,
      registry, delivered, order, hook, tasks, lastEvent, last, nOps>>

\* what only createStore and the component's life cycle change
storeVars == <<passwordSet, stores, hook>>

eventVars == <<delivered, order, tasks, lastEvent>>

subVars == <<listeners, registry>>

----------------------------------------------------------------------------
(* Records *)

IdleCall ==
    [op |-> "idle", pc |-> "idle", store |-> "-", key |-> "-",
     value |-> Undefined, entries |-> EmptyObj, ranInit |-> FALSE,
     data |-> EmptyObj, toSet |-> EmptyObj, result |-> Undefined,
     resultMap |-> EmptyObj, log |-> <<>>, pre |-> EmptyObj,
     wasInitialized |-> FALSE]

NoPrev ==
    [op |-> "none", store |-> "-", key |-> "-", value |-> Undefined,
     ranInit |-> FALSE, hadEntry |-> FALSE]

NoListener == [used |-> FALSE, store |-> "-", key |-> "-"]

\* no component is mounted; subs are the listeners its effect runs created
NoHook == [mounted |-> FALSE, store |-> "-", key |-> "-", subs |-> {}]

NoEvent == [no |-> 0, area |-> "-", changes |-> EmptyObj]

Last(act, s, h, enc, threw) ==
    [act |-> act, store |-> s, handle |-> h, enc |-> enc, threw |-> threw]

InFlight(call) == call.pc \notin {"idle", "done", "failed", "rejected"}

NoCallInFlight == \A c \in ConcurrentCallIds : ~InFlight(calls[c])

\* one host call a store operation issued
HostCall(fn, ks, items, phase, ok) ==
    [fn |-> fn, keys |-> ks, items |-> items, phase |-> phase, ok |-> ok]

\* the host storage contents the model starts from
InitialLocal ==
    LET Base == [h \in HostKeys |-> IF h = ForeignKey THEN "v1" ELSE Undefined]
    IN  { Base,
          [Base EXCEPT !["p:t"] = "v2"],
          [Base EXCEPT !["p:t"] = Encrypt("v2")] }

Init ==
    /\ passwordSet \in BOOLEAN
    /\ stores = [s \in PairSlots |-> NoStore]
    /\ hasInitialized = [s \in PairSlots |-> FALSE]
    /\ \E loc \in InitialLocal :
         storage = [a \in Areas |->
                      IF a = "local" THEN loc
                      ELSE [h \in HostKeys |-> Undefined]]
    /\ calls = [c \in ConcurrentCallIds |-> IdleCall]
    /\ prev = NoPrev
    /\ listeners = [l \in ListenerIds |-> NoListener]
    /\ registry = {}
    /\ delivered = [l \in ListenerIds |-> <<>>]
    /\ order = [l \in ListenerIds |-> <<>>]
    /\ hook = NoHook
    /\ tasks = {}
    /\ lastEvent = NoEvent
    /\ last = Last("init", "-", 0, FALSE, FALSE)
    /\ nOps = 0

----------------------------------------------------------------------------
(* chrome.storage.onChanged: a write that changes something is reported to *)
(* every registered listener; each listener is the closure `sub`.          *)

\* a slip: the area of the event is not compared
SubMatchesAnyArea(cfg, key, changes, areaName) ==
    (cfg.storeId \o ":" \o key) \in DOMAIN changes

\* the two early returns of sub: the area and the key filter
SubMatches(cfg, key, changes, areaName) ==
    /\ areaName = cfg.area
    /\ ActualKey(cfg.storeId, key) \in DOMAIN changes

\* the DataChange an unencrypted sub passes to its callback
SubChange(cfg, key, changes) ==
    [oldValue |-> changes[ActualKey(cfg.storeId, key)].oldValue,
     newValue |-> changes[ActualKey(cfg.storeId, key)].newValue]

ListenerCfg(l) == stores[listeners[l].store]

\* the host reports the write old -> new of `area` to the registered listeners
Emit(area, old, new) ==
    LET ch == Changes(old, new)
        ev == [no |-> lastEvent.no + 1, area |-> area, changes |-> ch]
        hit == {l \in registry :
                  SubMatches(ListenerCfg(l), listeners[l].key, ch, area)}
    IN  IF DOMAIN ch = {}
        THEN UNCHANGED eventVars
        ELSE /\ lastEvent' = ev
             /\ delivered' =
                  [l \in ListenerIds |->
                     IF l \in hit /\ ~ListenerCfg(l).isEncrypted
                     THEN Append(delivered[l],
                                 SubChange(ListenerCfg(l), listeners[l].key, ch))
                     ELSE delivered[l]]
             /\ order' =
                  [l \in ListenerIds |->
                     IF l \in hit /\ ~ListenerCfg(l).isEncrypted
                     THEN Append(order[l], ev.no)
                     ELSE order[l]]
             /\ tasks' = tasks \cup
                  {[listener |-> l, no |-> ev.no,
                    change |-> SubChange(ListenerCfg(l), listeners[l].key, ch)] :
                     l \in {h \in hit : ListenerCfg(h).isEncrypted}}

\* an encrypted sub resumes after Promise.all of its two decryptions
DeliverDecrypted(t) ==
    /\ t \in tasks
    /\ tasks' = tasks \ {t}
    /\ LET old == Decrypt(t.change.oldValue)
           new == Decrypt(t.change.newValue)
       IN  IF DecryptError \in {old, new}
           THEN UNCHANGED <<delivered, order>>
           ELSE /\ delivered' = [delivered EXCEPT ![t.listener] =
                     Append(@, [oldValue |-> old, newValue |-> new])]
                /\ order' = [order EXCEPT ![t.listener] = Append(@, t.no)]
    /\ last' = Last("deliver", listeners[t.listener].store, t.listener,
                    FALSE, FALSE)
    /\ UNCHANGED <<storeVars, hasInitialized, storage, calls, prev, subVars,
                   lastEvent, nOps>>

----------------------------------------------------------------------------
(* createStore *)

\* a slip: the secret is not checked
CreateNeverThrows(isEncrypted) == FALSE

\* isEncrypted && !process.env.EXTENSION_STORAGE_PASSWORD
CreateThrows(isEncrypted) == isEncrypted /\ ~passwordSet

CreateStore(s, storeId, defaults, area, isEncrypted) ==
    /\ ~stores[s].made
    /\ nOps' = nOps
    /\ last' = Last("createStore", s, 0, isEncrypted, CreateThrows(isEncrypted))
    /\ stores' =
         IF CreateThrows(isEncrypted)
         THEN stores
         ELSE [stores EXCEPT ![s] =
                 [made |-> TRUE, storeId |-> storeId, defaults |-> defaults,
                  area |-> area, isEncrypted |-> isEncrypted]]
    /\ UNCHANGED <<passwordSet, hook, hasInitialized, storage, calls, prev,
                   subVars, eventVars>>

----------------------------------------------------------------------------
(* The operations' first steps *)

\* a slip: undefined is written like any other value
SetBodyPcAlwaysSet(value) == "set_set"

\* set(key, value), key a string: remove when value is undefined, else set
SetBodyPc(value) == IF value = Undefined THEN "set_remove" ELSE "set_set"

\* a slip: no entry is taken for a removal
EntriesToRemoveNone(cfg, entries) == {}

\* set(values): the actual keys whose value is undefined
EntriesToRemove(cfg, entries) ==
    {ActualKey(cfg.storeId, k) : k \in {e \in DOMAIN entries : entries[e] = Undefined}}

\* set(values): the object passed to the batched host set
EntriesToSet(cfg, entries) ==
    LET ks == {e \in DOMAIN entries : entries[e] # Undefined}
    IN  [ak \in {ActualKey(cfg.storeId, k) : k \in ks} |->
            StoredForm(cfg,
                entries[CHOOSE k \in ks : ActualKey(cfg.storeId, k) = ak])]

\* where an operation continues once the store is initialised
BodyPc(cfg, op, value, entries) ==
    CASE op = "initialize" -> "done"
      [] op = "get" -> "get_get"
      [] op = "set" -> SetBodyPc(value)
      [] op = "setBulk" ->
            IF EntriesToRemove(cfg, entries) # {} THEN "bulk_remove"
            ELSE IF DOMAIN EntriesToSet(cfg, entries) # {} THEN "bulk_set"
            ELSE "done"
      [] op = "all" -> "all_get"

\* a slip: initialize() itself returns at once when the flag is set
FirstPcGuarded(s, op, value, entries) ==
    IF ~hasInitialized[s]
    THEN "init_get"
    ELSE BodyPc(stores[s], op, value, entries)

\* a slip: the flag is not consulted
FirstPcAlwaysInit(s, op, value, entries) == "init_get"

\* if (!hasInitialized) await store.initialize()
FirstPc(s, op, value, entries) ==
    IF op = "initialize" \/ ~hasInitialized[s]
    THEN "init_get"
    ELSE BodyPc(stores[s], op, value, entries)

\* what the next operation's claim needs of a completed set(key, value) or
\* initialize()
Summary(call) ==
    IF call.pc = "done" /\ call.op = "set"
    THEN [op |-> call.op, store |-> call.store, key |-> call.key,
          value |-> call.value, ranInit |-> call.ranInit,
          hadEntry |->
            call.pre[stores[call.store].storeId \o ":" \o call.key] # Undefined]
    ELSE IF call.pc = "done" /\ call.op = "initialize"
    THEN [NoPrev EXCEPT !.op = call.op, !.store = call.store, !.ranInit = TRUE]
    ELSE NoPrev

\* the record of an operation that has run up to its first host call
Begin(s, op, key, value, entries) ==
    [IdleCall EXCEPT !.op = op, !.store = s, !.key = key,
                     !.value = value, !.entries = entries,
                     !.pre = storage[stores[s].area],
                     !.wasInitialized = hasInitialized[s],
                     !.pc = FirstPc(s, op, value, entries)]

StartCall(c, s, op, key, value, entries) ==
    /\ nOps < MaxOps
    /\ stores[s].made
    /\ NoCallInFlight
    /\ nOps' = nOps + 1
    /\ calls' = [calls EXCEPT ![c] = Begin(s, op, key, value, entries)]
    /\ prev' = Summary(calls[c])
    /\ last' = Last(op, s, 0, FALSE, FALSE)
    /\ UNCHANGED <<storeVars, hasInitialized, storage, subVars, eventVars>>

\* an operation is called while another one may be awaiting a host call; it
\* takes the first call record that is free
StartConcurrent(c, s, op, key, value, entries) ==
    /\ nOps < MaxOps
    /\ stores[s].made
    /\ ~InFlight(calls[c])
    /\ \A d \in ConcurrentCallIds : d < c => InFlight(calls[d])
    /\ nOps' = nOps + 1
    /\ calls' = [calls EXCEPT ![c] = Begin(s, op, key, value, entries)]
    /\ prev' = NoPrev
    /\ last' = Last(op, s, 0, FALSE, FALSE)
    /\ UNCHANGED <<storeVars, hasInitialized, storage, subVars, eventVars>>

StartInitialize(c, s) == StartCall(c, s, "initialize", "-", Undefined, EmptyObj)

StartGet(c, s, key) == StartCall(c, s, "get", key, Undefined, EmptyObj)

StartSet(c, s, key, value) == StartCall(c, s, "set", key, value, EmptyObj)

StartSetBulk(c, s, entries) == StartCall(c, s, "setBulk", "-", Undefined, entries)

StartAll(c, s) == StartCall(c, s, "all", "-", Undefined, EmptyObj)

----------------------------------------------------------------------------
(* store.initialize *)

\* a slip: every key is seeded, not only the missing ones
MissingKeysAll(data, actualKeys) == actualKeys

\* actualKeys.filter(key => data[key] === undefined)
MissingKeys(data, actualKeys) == {ak \in actualKeys : Prop(data, ak) = Undefined}

\* the loop over missingKeys: defaults is indexed by the key of the loop,
\* which is an actual key
DefaultsToSet(cfg, missingKeys) ==
    [key \in missingKeys |-> StoredForm(cfg, Prop(cfg.defaults, key))]

\* a slip: the flag is set as soon as the read has resolved
InitializedAfterReadAlways(ok, missingKeys) == ok

\* hasInitialized = true is reached after the read if nothing is to be written
InitializedAfterRead(ok, missingKeys) == ok /\ missingKeys = {}

\* await chrome.storage[area].get(actualKeys) and the code up to the next call
InitGet(c, ok) ==
    LET call == calls[c]
        cfg == stores[call.store]
        data == HostGet(storage[cfg.area], ActualKeys(cfg))
        missingKeys == MissingKeys(data, ActualKeys(cfg))
        logged == Append(call.log,
                         HostCall("get", ActualKeys(cfg), EmptyObj, "init", ok))
    IN  /\ call.pc = "init_get"
        /\ calls' = [calls EXCEPT ![c] =
             IF ~ok
             THEN [call EXCEPT !.pc = "failed", !.log = logged]
             ELSE IF missingKeys = {}
             THEN [call EXCEPT !.pc = BodyPc(cfg, call.op, call.value, call.entries),
                               !.ranInit = TRUE, !.data = data, !.log = logged]
             ELSE [call EXCEPT !.pc = "init_set", !.data = data,
                               !.toSet = DefaultsToSet(cfg, missingKeys),
                               !.log = logged]]
        /\ hasInitialized' =
             IF InitializedAfterRead(ok, missingKeys)
             THEN [hasInitialized EXCEPT ![call.store] = TRUE]
             ELSE hasInitialized
        /\ last' = Last("init_get", call.store, 0, FALSE, FALSE)
        /\ UNCHANGED <<storeVars, storage, prev, subVars, eventVars, nOps>>

\* await chrome.storage[area].set(defaultsToSet); hasInitialized = true
InitSet(c, ok) ==
    LET call == calls[c]
        cfg == stores[call.store]
        old == storage[cfg.area]
        new == IF ok THEN HostSet(old, call.toSet) ELSE old
        logged == Append(call.log,
                         HostCall("set", DOMAIN call.toSet, call.toSet, "init", ok))
    IN  /\ call.pc = "init_set"
        /\ storage' = [storage EXCEPT ![cfg.area] = new]
        /\ Emit(cfg.area, old, new)
        /\ calls' = [calls EXCEPT ![c] =
             IF ~ok
             THEN [call EXCEPT !.pc = "failed", !.log = logged]
             ELSE [call EXCEPT !.pc = BodyPc(cfg, call.op, call.value, call.entries),
                               !.ranInit = TRUE, !.log = logged]]
        /\ hasInitialized' =
             IF ok THEN [hasInitialized EXCEPT ![call.store] = TRUE]
             ELSE hasInitialized
        /\ last' = Last("init_set", call.store, 0, FALSE, FALSE)
        /\ UNCHANGED <<storeVars, prev, subVars, nOps>>

----------------------------------------------------------------------------
(* store.get *)

\* (await chrome.storage[area].get(actualKey))[actualKey], decrypted if needed
GetRead(c, ok) ==
    LET call == calls[c]
        cfg == stores[call.store]
        actualKey == ActualKey(cfg.storeId, call.key)
        value == Prop(HostGet(storage[cfg.area], {actualKey}), actualKey)
        ret == IF cfg.isEncrypted THEN Decrypt(value) ELSE value
        logged == Append(call.log,
                         HostCall("get", {actualKey}, EmptyObj, "body", ok))
    IN  /\ call.pc = "get_get"
        /\ calls' = [calls EXCEPT ![c] =
             IF ~ok THEN [call EXCEPT !.pc = "failed", !.log = logged]
             ELSE IF ret = DecryptError
             THEN [call EXCEPT !.pc = "rejected", !.log = logged]
             ELSE [call EXCEPT !.pc = "done", !.result = ret, !.log = logged]]
        /\ last' = Last("get_get", call.store, 0, FALSE, FALSE)
        /\ UNCHANGED <<storeVars, hasInitialized, storage, prev, subVars,
                       eventVars, nOps>>

----------------------------------------------------------------------------
(* store.set *)

\* a slip: the rejection of a host call is swallowed
AfterHostCallSwallowed(ok, nextPc) == nextPc

\* await: a rejected host call rejects the operation, which runs no further
AfterHostCall(ok, nextPc) == IF ok THEN nextPc ELSE "failed"

\* a host remove or set of the operation's body, and where it goes next
BodyWrite(c, ok, pc, fn, ks, items, nextPc) ==
    LET call == calls[c]
        cfg == stores[call.store]
        old == storage[cfg.area]
        new == IF ~ok THEN old
               ELSE IF fn = "remove" THEN HostRemove(old, ks)
               ELSE HostSet(old, items)
        logged == Append(call.log, HostCall(fn, ks, items, "body", ok))
    IN  /\ call.pc = pc
        /\ storage' = [storage EXCEPT ![cfg.area] = new]
        /\ Emit(cfg.area, old, new)
        /\ calls' = [calls EXCEPT ![c] =
             [call EXCEPT !.pc = AfterHostCall(ok, nextPc), !.log = logged]]
        /\ last' = Last(pc, call.store, 0, FALSE, FALSE)
        /\ UNCHANGED <<storeVars, hasInitialized, prev, subVars, nOps>>

\* return await chrome.storage[area].remove(actualKey)
SetRemove(c, ok) ==
    LET cfg == stores[calls[c].store]
    IN  BodyWrite(c, ok, "set_remove", "remove",
                  {ActualKey(cfg.storeId, calls[c].key)}, EmptyObj, "done")

\* await chrome.storage[area].set({[actualKey]: ...})
SetWrite(c, ok) ==
    LET cfg == stores[calls[c].store]
        actualKey == ActualKey(cfg.storeId, calls[c].key)
    IN  BodyWrite(c, ok, "set_set", "set", {actualKey},
                  actualKey :> StoredForm(cfg, calls[c].value), "done")

\* await chrome.storage[area].remove(entriesToRemove)
BulkRemove(c, ok) ==
    LET cfg == stores[calls[c].store]
    IN  BodyWrite(c, ok, "bulk_remove", "remove",
                  EntriesToRemove(cfg, calls[c].entries), EmptyObj,
                  IF DOMAIN EntriesToSet(cfg, calls[c].entries) # {}
                  THEN "bulk_set" ELSE "done")

\* await chrome.storage[area].set(entriesToSet)
BulkWrite(c, ok) ==
    LET cfg == stores[calls[c].store]
        entriesToSet == EntriesToSet(cfg, calls[c].entries)
    IN  BodyWrite(c, ok, "bulk_set", "set", DOMAIN entriesToSet,
                  entriesToSet, "done")

----------------------------------------------------------------------------
(* store.all *)

\* the object all() resolves to: the host's answer, to which an encrypted
\* store adds one property per logical key
AllResult(cfg, fullStore) ==
    IF cfg.isEncrypted
    THEN [k \in Keys(cfg) |-> Decrypt(Prop(fullStore, ActualKey(cfg.storeId, k)))]
            @@ fullStore
    ELSE fullStore

AllRead(c, ok) ==
    LET call == calls[c]
        cfg == stores[call.store]
        fullStore == HostGet(storage[cfg.area], ActualKeys(cfg))
        ret == AllResult(cfg, fullStore)
        logged == Append(call.log,
                         HostCall("get", ActualKeys(cfg), EmptyObj, "body", ok))
    IN  /\ call.pc = "all_get"
        /\ calls' = [calls EXCEPT ![c] =
             IF ~ok THEN [call EXCEPT !.pc = "failed", !.log = logged]
             ELSE IF \E k \in DOMAIN ret : ret[k] = DecryptError
             THEN [call EXCEPT !.pc = "rejected", !.log = logged]
             ELSE [call EXCEPT !.pc = "done", !.resultMap = ret, !.log = logged]]
        /\ last' = Last("all_get", call.store, 0, FALSE, FALSE)
        /\ UNCHANGED <<storeVars, hasInitialized, storage, prev, subVars,
                       eventVars, nOps>>

----------------------------------------------------------------------------
(* store.subscribe, store.unsubscribe *)

\* chrome.storage.onChanged.addListener(sub); return sub
Subscribe(s, key) ==
    /\ nOps < MaxOps
    /\ stores[s].made
    /\ \E l \in ListenerIds :
         /\ ~listeners[l].used
         /\ \A m \in ListenerIds : m < l => listeners[m].used
         /\ listeners' = [listeners EXCEPT ![l] =
                            [used |-> TRUE, store |-> s, key |-> key]]
         /\ registry' = registry \cup {l}
         /\ last' = Last("subscribe", s, l, FALSE, FALSE)
    /\ nOps' = nOps + 1
    /\ UNCHANGED <<storeVars, hasInitialized, storage, calls, prev, eventVars>>

\* a slip: every listener is dropped
RemoveListenerAll(reg, sub) == {}

\* chrome.storage.onChanged.removeListener(sub)
RemoveListener(reg, sub) == reg \ {sub}

Unsubscribe(s, sub) ==
    /\ nOps < MaxOps
    /\ stores[s].made
    /\ registry' = RemoveListener(registry, sub)
    /\ last' = Last("unsubscribe", s, sub, FALSE, FALSE)
    /\ nOps' = nOps + 1
    /\ UNCHANGED <<storeVars, hasInitialized, storage, calls, prev, listeners,
                   eventVars>>

----------------------------------------------------------------------------
(* store.use: the effect of the hook and its cleanup.  The state `value` of *)
(* the component is what get resolved to or the newValue its callback got   *)
(* last; it feeds nothing back into the store and is not kept.              *)

\* the function onChanged of an effect run; it is the callback handed to
\* subscribe, not the listener subscribe registers and returns
OnChanged == 0

\* the effect: store.get(key).then(setValue); store.subscribe(key, onChanged),
\* run when reg are the host's listeners
Effect(c, s, key, reg, act) ==
    /\ ~InFlight(calls[c])
    /\ calls' = [calls EXCEPT ![c] = Begin(s, "get", key, Undefined, EmptyObj)]
    /\ \E l \in ListenerIds :
         /\ ~listeners[l].used
         /\ \A m \in ListenerIds : m < l => listeners[m].used
         /\ listeners' = [listeners EXCEPT ![l] =
                            [used |-> TRUE, store |-> s, key |-> key]]
         /\ registry' = reg \cup {l}
         /\ hook' = [mounted |-> TRUE, store |-> s, key |-> key,
                     subs |-> hook.subs \cup {l}]
         /\ last' = Last(act, s, l, FALSE, FALSE)

\* the cleanup the effect returns: store.unsubscribe(onChanged)
Cleanup(reg) == RemoveListener(reg, OnChanged)

\* the component renders store.use(key) for the first time
UseMount(c, s, key) ==
    /\ nOps < MaxOps
    /\ stores[s].made
    /\ hook = NoHook
    /\ Effect(c, s, key, registry, "mount")
    /\ nOps' = nOps + 1
    /\ UNCHANGED <<passwordSet, stores, hasInitialized, storage, prev, eventVars>>

\* the component renders store.use(key) with another key: [key] has changed,
\* the cleanup of the last effect run runs and then the effect again
UseRekey(c, key) ==
    /\ nOps < MaxOps
    /\ hook.mounted
    /\ key # hook.key
    /\ Effect(c, hook.store, key, Cleanup(registry), "rekey")
    /\ nOps' = nOps + 1
    /\ UNCHANGED <<passwordSet, stores, hasInitialized, storage, prev, eventVars>>

\* the component unmounts: the cleanup of the last effect run runs
UseUnmount ==
    /\ nOps < MaxOps
    /\ hook.mounted
    /\ registry' = Cleanup(registry)
    /\ hook' = [hook EXCEPT !.mounted = FALSE]
    /\ last' = Last("unmount", hook.store, 0, FALSE, FALSE)
    /\ nOps' = nOps + 1
    /\ UNCHANGED <<passwordSet, stores, hasInitialized, storage, calls, prev,
                   listeners, eventVars>>

----------------------------------------------------------------------------
(* Another extension context writes host storage *)

\* <<area, key, value>>; the value undefined is a remove
ForeignWrites ==
    { <<"local", "p:t", "v1">>, <<"local", "p:t", Encrypt("v1")>>,
      <<"local", "p:t", Undefined>>, <<"sync", "p:t", "v1">> }

ForeignWrite(area, h, v) ==
    LET old == storage[area]
        new == [old EXCEPT ![h] = v]
    IN  /\ nOps < MaxOps
        /\ NoCallInFlight
        /\ old # new
        /\ storage' = [storage EXCEPT ![area] = new]
        /\ Emit(area, old, new)
        /\ calls' = [c \in ConcurrentCallIds |-> IdleCall]
        /\ prev' = NoPrev
        /\ last' = Last("foreignWrite", "-", 0, FALSE, FALSE)
        /\ nOps' = nOps + 1
        /\ UNCHANGED <<storeVars, hasInitialized, subVars>>

----------------------------------------------------------------------------
(* The inputs of set(values) *)

BulkEntries(cfg) ==
    LET other == CHOOSE k \in Keys(cfg) : k # "t"
    IN  IF ~cfg.made THEN {} ELSE
        { EmptyObj,
          "t" :> "v2",
          "t" :> Undefined,
          ("t" :> "v2") @@ (other :> Undefined),
          ("t" :> Undefined) @@ (other :> Undefined),
          ("t" :> "v2") @@ (other :> "v1") }

\* the values set(key, value) is called with
SetValues == {"v2", Undefined}

Next ==
    \/ \E s \in StoreSlots, id \in StoreIds, d \in DefaultsChoices,
          a \in StoreAreas, e \in BOOLEAN : CreateStore(s, id, d, a, e)
    \/ \E c \in CallIds, s \in StoreSlots : StartInitialize(c, s)
    \/ \E c \in CallIds, s \in StoreSlots : \E k \in Keys(stores[s]) : StartGet(c, s, k)
    \/ \E c \in CallIds, s \in StoreSlots : \E k \in Keys(stores[s]), v \in SetValues :
          StartSet(c, s, k, v)
    \/ \E c \in CallIds, s \in StoreSlots : \E m \in BulkEntries(stores[s]) :
          StartSetBulk(c, s, m)
    \/ \E c \in CallIds, s \in StoreSlots : StartAll(c, s)
    \/ \E c \in CallIds, ok \in HostOutcomes : InitGet(c, ok)
    \/ \E c \in CallIds, ok \in HostOutcomes : InitSet(c, ok)
    \/ \E c \in CallIds, ok \in HostOutcomes : GetRead(c, ok)
    \/ \E c \in CallIds, ok \in HostOutcomes : SetRemove(c, ok)
    \/ \E c \in CallIds, ok \in HostOutcomes : SetWrite(c, ok)
    \/ \E c \in CallIds, ok \in HostOutcomes : BulkRemove(c, ok)
    \/ \E c \in CallIds, ok \in HostOutcomes : BulkWrite(c, ok)
    \/ \E c \in CallIds, ok \in HostOutcomes : AllRead(c, ok)
    \/ \E s \in StoreSlots : \E k \in Keys(stores[s]) : Subscribe(s, k)
    \/ \E s \in StoreSlots, l \in ListenerIds : Unsubscribe(s, l)
    \/ \E t \in tasks : DeliverDecrypted(t)
    \/ \E w \in ForeignWrites : ForeignWrite(w[1], w[2], w[3])

Spec == Init /\ [][Next]_vars

\* the operations of one store, one at a time, any host call of which can
\* be rejected
NextErr ==
    \/ \E s \in StoreSlots, id \in StoreIds, d \in DefaultsChoices,
          a \in StoreAreas, e \in BOOLEAN : CreateStore(s, id, d, a, e)
    \/ \E c \in CallIds, s \in StoreSlots : StartInitialize(c, s)
    \/ \E c \in CallIds, s \in StoreSlots : \E k \in Keys(stores[s]) : StartGet(c, s, k)
    \/ \E c \in CallIds, s \in StoreSlots : \E k \in Keys(stores[s]), v \in SetValues :
          StartSet(c, s, k, v)
    \/ \E c \in CallIds, s \in StoreSlots : \E m \in BulkEntries(stores[s]) :
          StartSetBulk(c, s, m)
    \/ \E c \in CallIds, s \in StoreSlots : StartAll(c, s)
    \/ \E c \in CallIds, ok \in HostOutcomesWithErrors : InitGet(c, ok)
    \/ \E c \in CallIds, ok \in HostOutcomesWithErrors : InitSet(c, ok)
    \/ \E c \in CallIds, ok \in HostOutcomesWithErrors : GetRead(c, ok)
    \/ \E c \in CallIds, ok \in HostOutcomesWithErrors : SetRemove(c, ok)
    \/ \E c \in CallIds, ok \in HostOutcomesWithErrors : SetWrite(c, ok)
    \/ \E c \in CallIds, ok \in HostOutcomesWithErrors : BulkRemove(c, ok)
    \/ \E c \in CallIds, ok \in HostOutcomesWithErrors : BulkWrite(c, ok)
    \/ \E c \in CallIds, ok \in HostOutcomesWithErrors : AllRead(c, ok)

SpecErr == Init /\ [][NextErr]_vars

\* the operations of one store, started while others are in flight
NextConc ==
    \/ \E s \in StoreSlots, id \in StoreIds, d \in DefaultsChoices,
          a \in StoreAreas, e \in BOOLEAN : CreateStore(s, id, d, a, e)
    \/ \E c \in ConcurrentCallIds, s \in StoreSlots :
          StartConcurrent(c, s, "initialize", "-", Undefined, EmptyObj)
    \/ \E c \in ConcurrentCallIds, s \in StoreSlots : \E k \in Keys(stores[s]) :
          StartConcurrent(c, s, "get", k, Undefined, EmptyObj)
    \/ \E c \in ConcurrentCallIds, s \in StoreSlots :
          \E k \in Keys(stores[s]), v \in SetValues :
             StartConcurrent(c, s, "set", k, v, EmptyObj)
    \/ \E c \in ConcurrentCallIds, s \in StoreSlots :
          StartConcurrent(c, s, "all", "-", Undefined, EmptyObj)
    \/ \E c \in ConcurrentCallIds, ok \in HostOutcomes : InitGet(c, ok)
    \/ \E c \in ConcurrentCallIds, ok \in HostOutcomes : InitSet(c, ok)
    \/ \E c \in ConcurrentCallIds, ok \in HostOutcomes : GetRead(c, ok)
    \/ \E c \in ConcurrentCallIds, ok \in HostOutcomes : SetRemove(c, ok)
    \/ \E c \in ConcurrentCallIds, ok \in HostOutcomes : SetWrite(c, ok)
    \/ \E c \in ConcurrentCallIds, ok \in HostOutcomes : AllRead(c, ok)

SpecConc == Init /\ [][NextConc]_vars

\* two unencrypted stores on one area, one operation at a time
NextPair ==
    \/ \E s \in PairSlots, ch \in PairChoices, a \in StoreAreas :
          CreateStore(s, ch[1], ch[2], a, FALSE)
    \/ \E c \in CallIds, s \in PairSlots : StartInitialize(c, s)
    \/ \E c \in CallIds, s \in PairSlots : \E k \in Keys(stores[s]) : StartGet(c, s, k)
    \/ \E c \in CallIds, s \in PairSlots : \E k \in Keys(stores[s]), v \in SetValues :
          StartSet(c, s, k, v)
    \/ \E c \in CallIds, ok \in HostOutcomes : InitGet(c, ok)
    \/ \E c \in CallIds, ok \in HostOutcomes : InitSet(c, ok)
    \/ \E c \in CallIds, ok \in HostOutcomes : GetRead(c, ok)
    \/ \E c \in CallIds, ok \in HostOutcomes : SetRemove(c, ok)
    \/ \E c \in CallIds, ok \in HostOutcomes : SetWrite(c, ok)
    \/ \E s \in PairSlots : \E k \in Keys(stores[s]) : Subscribe(s, k)

SpecPair == Init /\ [][NextPair]_vars

\* the keys the mounted component can be rendered with
HookKeys == IF hook.mounted THEN Keys(stores[hook.store]) ELSE {}

\* a component that renders store.use(key), and writes of another context
NextHook ==
    \/ \E s \in StoreSlots, id \in StoreIds, d \in DefaultsChoices,
          a \in StoreAreas, e \in BOOLEAN : CreateStore(s, id, d, a, e)
    \/ \E c \in ConcurrentCallIds, s \in StoreSlots :
          \E k \in Keys(stores[s]) : UseMount(c, s, k)
    \/ \E c \in ConcurrentCallIds :
          \E k \in HookKeys : UseRekey(c, k)
    \/ UseUnmount
    \/ \E c \in ConcurrentCallIds, ok \in HostOutcomes : InitGet(c, ok)
    \/ \E c \in ConcurrentCallIds, ok \in HostOutcomes : InitSet(c, ok)
    \/ \E c \in ConcurrentCallIds, ok \in HostOutcomes : GetRead(c, ok)
    \/ \E t \in tasks : DeliverDecrypted(t)
    \/ \E w \in ForeignWrites : ForeignWrite(w[1], w[2], w[3])

SpecHook == Init /\ [][NextHook]_vars

----------------------------------------------------------------------------
(* Helpers of the properties *)

\* the actual keys of a store, spelled out: storeId, a colon, a declared key
Namespace(cfg) == {cfg.storeId \o ":" \o k : k \in DOMAIN cfg.defaults}

\* what a store keeps in host storage for the logical value v
AtRest(cfg, v) == IF cfg.isEncrypted THEN "enc(" \o v \o ")" ELSE v

InitLog(call) == SelectSeq(call.log, LAMBDA e : e.phase = "init")

BodyLog(call) == SelectSeq(call.log, LAMBDA e : e.phase = "body")

\* the call is a get(k) that directly follows a completed set(k, v)
GetAfterSet(call) ==
    /\ call.op = "get"
    /\ call.pc \in {"done", "rejected"}
    /\ prev.op = "set"
    /\ prev.store = call.store
    /\ prev.key = call.key

----------------------------------------------------------------------------
(* C1 *)

\* C1: when initialize() has completed (called explicitly, or lazily by a
\* get), every declared key k that host storage did not hold before holds its
\* declared default (encrypted in an encrypted store), and get(k) returns it.
C1_InitializeSeedsDefaults ==
    \A c \in CallIds :
        LET call == calls[c]
            cfg == stores[call.store]
        IN  (call.pc = "done" /\ call.ranInit /\ call.op \in {"initialize", "get"}) =>
                \A k \in DOMAIN cfg.defaults :
                    call.pre[cfg.storeId \o ":" \o k] = Undefined =>
                        /\ storage[cfg.area][cfg.storeId \o ":" \o k]
                              = AtRest(cfg, cfg.defaults[k])
                        /\ (call.op = "get" /\ call.key = k) =>
                              call.result = cfg.defaults[k]

----------------------------------------------------------------------------
(* C2 *)

\* C2: initialize() issues one batched read of the store's actual keys and,
\* only if some were absent, one batched write of exactly the absent keys;
\* every host key that held a value before holds the same value afterwards.
C2_InitializeNeverOverwrites ==
    \A c \in CallIds :
        LET call == calls[c]
            cfg == stores[call.store]
            absent == {ak \in Namespace(cfg) : call.pre[ak] = Undefined}
        IN  (call.ranInit /\ BodyLog(call) = <<>>) =>
                /\ Len(call.log) = IF absent = {} THEN 1 ELSE 2
                /\ call.log[1].fn = "get"
                /\ call.log[1].keys = Namespace(cfg)
                /\ absent # {} =>
                      /\ call.log[2].fn = "set"
                      /\ call.log[2].keys = absent
                      /\ DOMAIN call.log[2].items = absent
                /\ \A h \in HostKeys :
                      call.pre[h] # Undefined =>
                          storage[cfg.area][h] = call.pre[h]

\* an initialize() that wrote a missing key next to a key whose existing
\* value is not the declared default
C2_Witness ==
    \E c \in CallIds :
        LET call == calls[c]
            cfg == stores[call.store]
        IN  /\ call.op = "initialize"
            /\ call.pc = "done"
            /\ Len(call.log) = 2
            /\ call.pre["p:t"] \notin {Undefined, AtRest(cfg, cfg.defaults["t"])}
            /\ storage[cfg.area]["p:t"] = call.pre["p:t"]

----------------------------------------------------------------------------
(* C3 *)

\* C3: a get(k) that directly follows a completed set(k, v), v not undefined,
\* on the same store resolves to v, in plain and in encrypted stores, whether
\* or not the set ran the lazy initialization.
C3_SetGetRoundTrip ==
    \A c \in CallIds :
        (GetAfterSet(calls[c]) /\ prev.value # Undefined) =>
            /\ calls[c].pc = "done"
            /\ calls[c].result = prev.value

\* the round trip through an encrypted store whose set ran the initialization
C3_Witness ==
    \E c \in CallIds :
        /\ GetAfterSet(calls[c])
        /\ prev.value = "v2"
        /\ prev.ranInit
        /\ stores[calls[c].store].isEncrypted
        /\ calls[c].result = "v2"

----------------------------------------------------------------------------
(* C4 *)

\* C4: all() resolves to a map whose keys are the declared logical keys and
\* whose value for k is the decoded value stored under storeId:k.
C4_AllReturnsLogicalKeys ==
    \A c \in CallIds :
        LET call == calls[c]
            cfg == stores[call.store]
        IN  (call.op = "all" /\ call.pc = "done") =>
                /\ DOMAIN call.resultMap = DOMAIN cfg.defaults
                /\ \A k \in DOMAIN cfg.defaults :
                      Prop(call.resultMap, k) =
                          IF cfg.isEncrypted
                          THEN Decrypt(storage[cfg.area][cfg.storeId \o ":" \o k])
                          ELSE storage[cfg.area][cfg.storeId \o ":" \o k]

----------------------------------------------------------------------------
(* C5 *)

----------------------------------------------------------------------------
(* C6 *)

\* the host calls the body of set(values) has to issue, in order
BulkExpected(cfg, entries) ==
    LET rm == {cfg.storeId \o ":" \o k :
                  k \in {e \in DOMAIN entries : entries[e] = Undefined}}
        ks == {e \in DOMAIN entries : entries[e] # Undefined}
        items == [ak \in {cfg.storeId \o ":" \o k : k \in ks} |->
                    AtRest(cfg, entries[CHOOSE k \in ks :
                                           cfg.storeId \o ":" \o k = ak])]
    IN  (IF rm = {} THEN <<>>
         ELSE <<HostCall("remove", rm, EmptyObj, "body", TRUE)>>)
        \o (IF ks = {} THEN <<>>
            ELSE <<HostCall("set", DOMAIN items, items, "body", TRUE)>>)

----------------------------------------------------------------------------
(* C7 *)

\* the DataChange of listener l for the event ev
EventChange(l, ev) ==
    LET ak == stores[listeners[l].store].storeId \o ":" \o listeners[l].key
    IN  [oldValue |-> ev.changes[ak].oldValue,
         newValue |-> ev.changes[ak].newValue]

\* the step dispatches an event of l's area that holds l's actual key
EventFor(l) ==
    /\ lastEvent'.no # lastEvent.no
    /\ lastEvent'.area = stores[listeners[l].store].area
    /\ (stores[listeners[l].store].storeId \o ":" \o listeners[l].key)
          \in DOMAIN lastEvent'.changes

\* C7: in every step, a registered listener of an unencrypted store gets its
\* callback invoked, once and with the event's own oldValue and newValue,
\* exactly if the step dispatches an event of the store's area whose changes
\* hold storeId:k; a registered listener of an encrypted store starts its
\* decryptions exactly for such an event and invokes its callback only with
\* the decrypted values of an event it started them for.
C7_SubscriptionFiltering ==
    [][\A l \in registry :
          IF stores[listeners[l].store].isEncrypted
          THEN /\ {t \in tasks' \ tasks : t.listener = l} =
                     IF EventFor(l)
                     THEN {[listener |-> l, no |-> lastEvent'.no,
                            change |-> EventChange(l, lastEvent')]}
                     ELSE {}
               /\ delivered'[l] # delivered[l] =>
                     \E t \in tasks \ tasks' :
                        /\ t.listener = l
                        /\ delivered'[l] =
                              Append(delivered[l],
                                     [oldValue |-> Decrypt(t.change.oldValue),
                                      newValue |-> Decrypt(t.change.newValue)])
          ELSE delivered'[l] =
                  IF EventFor(l)
                  THEN Append(delivered[l], EventChange(l, lastEvent'))
                  ELSE delivered[l]]_vars

\* a listener that got a change of its key in its area and did not get the
\* later change of the same key in another area
C7_Witness ==
    \E l \in registry :
        /\ ~stores[listeners[l].store].isEncrypted
        /\ Len(delivered[l]) = 1
        /\ lastEvent.area # stores[listeners[l].store].area
        /\ (stores[listeners[l].store].storeId \o ":" \o listeners[l].key)
              \in DOMAIN lastEvent.changes

----------------------------------------------------------------------------
(* C8 *)

\* C8: unsubscribe(h) removes h, and nothing else, from the host's listeners
\* (nothing at all if h is not among them); a listener that is not registered
\* starts no work for an event, and its callback is invoked only for an event
\* dispatched while it was registered.
C8_UnsubscribeRemovesExactlyOne ==
    [][/\ last'.act = "unsubscribe" =>
             /\ registry' = {l \in registry : l # last'.handle}
             /\ listeners' = listeners
             /\ delivered' = delivered
             /\ tasks' = tasks
       /\ \A l \in ListenerIds \ registry :
             /\ \A t \in tasks' \ tasks : t.listener # l
             /\ delivered'[l] # delivered[l] =>
                   \E t \in tasks : t.listener = l]_vars

\* unsubscribe(h) has removed a registered listener and left another one
C8_Witness ==
    /\ last.act = "unsubscribe"
    /\ listeners[last.handle].used
    /\ last.handle \notin registry
    /\ registry # {}

----------------------------------------------------------------------------
(* C9 *)

\* C9: createStore throws exactly if isEncrypted is requested and the secret
\* is not configured, and then returns no store; in either case it issues no
\* host call and leaves host storage and the host's listeners as they are.
C9_CreateChecksSecretFirst ==
    [][last'.act = "createStore" =>
          /\ last'.threw = (last'.enc /\ ~passwordSet)
          /\ last'.threw => stores' = stores
          /\ ~last'.threw =>
                /\ stores'[last'.store].made
                /\ stores'[last'.store].isEncrypted = last'.enc
          /\ storage' = storage
          /\ calls' = calls
          /\ registry' = registry
          /\ hasInitialized' = hasInitialized]_vars

\* a construction that failed for the missing secret
C9_Witness ==
    /\ last.act = "createStore"
    /\ last.threw
    /\ ~passwordSet
    /\ ~stores[last.store].made

----------------------------------------------------------------------------
(* C10 *)

\* C10: every key a store operation passes to a host get, set or remove is
\* storeId:k for a declared key k, and no step of a store changes a host
\* entry outside these keys or outside the store's area.
C10_Namespacing ==
    /\ [](\A c \in CallIds :
             calls[c].op # "idle" =>
                 \A i \in 1..Len(calls[c].log) :
                     /\ calls[c].log[i].keys \subseteq Namespace(stores[calls[c].store])
                     /\ DOMAIN calls[c].log[i].items
                           \subseteq Namespace(stores[calls[c].store]))
    /\ [][last'.act # "foreignWrite" =>
             \A a \in Areas, h \in HostKeys :
                 storage'[a][h] # storage[a][h] =>
                     /\ stores[last'.store].made
                     /\ a = stores[last'.store].area
                     /\ h \in Namespace(stores[last'.store])]_vars

\* a set(values) that read, seeded, removed and wrote, next to a foreign entry
C10_Witness ==
    \E c \in CallIds :
        /\ calls[c].op = "setBulk"
        /\ calls[c].pc = "done"
        /\ Len(calls[c].log) = 4
        /\ storage[stores[calls[c].store].area][ForeignKey] = "v1"

----------------------------------------------------------------------------
(* C11 *)

\* the call is an initialize() that directly follows a completed
\* initialize() of the same store
SecondInitialize(call) ==
    /\ call.op = "initialize"
    /\ prev.op = "initialize"
    /\ prev.store = call.store

\* C11: an initialize() that directly follows a completed initialize() of
\* the same store leaves the store's area as the first call left it; it
\* issues one host read, first, and a host set it issues holds no value that
\* differs from what the host holds under that key.
C11_InitializeIdempotent ==
    \A c \in CallIds :
        LET call == calls[c]
            cfg == stores[call.store]
        IN  SecondInitialize(call) =>
                /\ storage[cfg.area] = call.pre
                /\ call.pc = "done" =>
                      /\ Len(call.log) >= 1
                      /\ call.log[1].fn = "get"
                      /\ \A i \in 2..Len(call.log) :
                            /\ call.log[i].fn = "set"
                            /\ \A h \in DOMAIN call.log[i].items :
                                  call.log[i].items[h] \in {Undefined, call.pre[h]}

\* a second initialize() that found a key missing again and issued the
\* batched write again
C11_Witness ==
    \E c \in CallIds :
        /\ SecondInitialize(calls[c])
        /\ calls[c].pc = "done"
        /\ calls[c].wasInitialized
        /\ Len(calls[c].log) = 2

----------------------------------------------------------------------------
(* C12 *)

\* C12 as stated: an operation that starts when an initialization of the
\* store has completed, an explicit initialize() included, passes no
\* declared default to a host set of the initialization.
C12_SeedingAtMostOnce ==
    \A c \in CallIds :
        LET call == calls[c]
            cfg == stores[call.store]
        IN  call.wasInitialized =>
                \A i \in 1..Len(call.log) :
                    (call.log[i].phase = "init" /\ call.log[i].fn = "set") =>
                        \A h \in DOMAIN call.log[i].items :
                            \A k \in DOMAIN cfg.defaults :
                                call.log[i].items[h] # AtRest(cfg, cfg.defaults[k])

\* C12, amended: a get, set or all that starts when an initialization of the
\* store has completed issues no host call of the initialization, also when
\* a declared key is absent from the host; an explicit initialize() reads
\* the keys again and, if one is missing, issues the batched write again.
C12_LazySeedingAtMostOnce ==
    \A c \in CallIds :
        LET call == calls[c]
            cfg == stores[call.store]
            absent == {ak \in Namespace(cfg) : call.pre[ak] = Undefined}
        IN  call.wasInitialized =>
                IF call.op = "initialize"
                THEN call.pc = "done" =>
                        /\ Len(InitLog(call)) = IF absent = {} THEN 1 ELSE 2
                        /\ InitLog(call)[1].fn = "get"
                        /\ absent # {} => InitLog(call)[2].fn = "set"
                ELSE /\ InitLog(call) = <<>>
                     /\ ~call.ranInit
                     /\ call.op \in {"get", "all"} =>
                           \A i \in 1..Len(call.log) : call.log[i].fn = "get"

\* an all() on an initialised store one of whose keys the host does not hold
C12_Witness ==
    \E c \in CallIds :
        /\ calls[c].op = "all"
        /\ calls[c].pc = "done"
        /\ calls[c].wasInitialized
        /\ \E ak \in Namespace(stores[calls[c].store]) :
               calls[c].pre[ak] = Undefined

----------------------------------------------------------------------------
(* C13 *)

\* the logical value the store is asked to keep under the actual key h by
\* the i-th host call of the operation: a declared default in the
\* initialization, the argument of set in its body
LogicalValue(call, i, h) ==
    LET cfg == stores[call.store]
        k == CHOOSE x \in DOMAIN cfg.defaults : cfg.storeId \o ":" \o x = h
    IN  IF call.log[i].phase = "init" THEN cfg.defaults[k]
        ELSE IF call.op = "setBulk" THEN call.entries[k]
        ELSE call.value

Ciphertexts == {"enc(" \o v \o ")" : v \in JsValues}

\* C13: in an encrypted store every value passed to a host set (seeding,
\* set(key, value), set(values)) is encrypt of the logical value, and every
\* value get or all resolves to, or a callback is invoked with, is decrypt of
\* a stored value; an unencrypted store writes, returns and delivers values
\* as they are; isEncrypted never changes once the store is made.
C13_UniformEncryption ==
    /\ [](\A c \in CallIds :
             LET call == calls[c]
                 cfg == stores[call.store]
                 st == storage[cfg.area]
             IN  call.op # "idle" =>
                   /\ \A i \in 1..Len(call.log) :
                         call.log[i].fn = "set" =>
                            \A h \in DOMAIN call.log[i].items :
                               IF cfg.isEncrypted
                               THEN call.log[i].items[h] =
                                       "enc(" \o LogicalValue(call, i, h) \o ")"
                               ELSE call.log[i].items[h] \notin Ciphertexts
                   /\ (call.op = "get" /\ call.pc = "done") =>
                         call.result =
                            IF cfg.isEncrypted
                            THEN Decrypt(st[cfg.storeId \o ":" \o call.key])
                            ELSE st[cfg.storeId \o ":" \o call.key]
                   /\ (call.op = "all" /\ call.pc = "done") =>
                         \A k \in DOMAIN call.resultMap :
                            call.resultMap[k] \in
                               IF cfg.isEncrypted
                               THEN {Decrypt(st[h]) : h \in Namespace(cfg)}
                               ELSE {st[h] : h \in Namespace(cfg)})
    /\ [](\A l \in ListenerIds :
             (listeners[l].used /\ stores[listeners[l].store].isEncrypted) =>
                 \A i \in 1..Len(delivered[l]) :
                     /\ delivered[l][i].oldValue \in JsValues
                     /\ delivered[l][i].newValue \in JsValues)
    /\ [][\A s \in StoreSlots :
             stores[s].made => stores'[s].isEncrypted = stores[s].isEncrypted]_vars

----------------------------------------------------------------------------
(* C14 *)

\* C14: of the listeners the effect runs of one component have registered,
\* at most one is among the host's listeners at any time, and none once the
\* component is unmounted.
C14_HookTeardown ==
    /\ Cardinality(hook.subs \cap registry) <= 1
    /\ ~hook.mounted => hook.subs \cap registry = {}

----------------------------------------------------------------------------
(* C15 *)

\* C15: a rejected host call is the last host call of its operation, which
\* is then rejected: nothing is issued after it, the call is not issued
\* again, and the operation resolves to no value; an operation is rejected
\* for a host error only if its last host call was rejected, and completes
\* only if none was.
C15_HostErrorsSurface ==
    \A c \in CallIds :
        LET call == calls[c]
        IN  call.op # "idle" =>
                /\ \A i \in 1..Len(call.log) :
                      ~call.log[i].ok => (i = Len(call.log) /\ call.pc = "failed")
                /\ call.pc = "failed" =>
                      /\ Len(call.log) >= 1
                      /\ ~call.log[Len(call.log)].ok
                      /\ call.result = Undefined
                      /\ call.resultMap = EmptyObj

\* a set(values) whose remove was rejected and whose set was never issued
C15_Witness ==
    \E c \in CallIds :
        /\ calls[c].op = "setBulk"
        /\ calls[c].pc = "failed"
        /\ calls[c].log[Len(calls[c].log)].fn = "remove"
        /\ \E k \in DOMAIN calls[c].entries : calls[c].entries[k] # Undefined

----------------------------------------------------------------------------
(* C16 *)

\* the step is the write of the initialization operation d runs
InitWriteStep(d) == calls[d].pc = "init_set" /\ calls'[d].pc # "init_set"

\* C16: among operations started while hasInitialized was false, the write
\* of an initialization changes no host entry that holds a value when it is
\* issued; so it leaves the value of a completed set(k, v) under storeId:k.
C16_ConcurrentInitHarmless ==
    [][\A d \in ConcurrentCallIds :
          (InitWriteStep(d) /\ ~calls[d].wasInitialized) =>
              LET cfg == stores[calls[d].store]
              IN  /\ \A h \in HostKeys :
                        storage[cfg.area][h] # Undefined =>
                            storage'[cfg.area][h] = storage[cfg.area][h]
                  /\ \A c \in ConcurrentCallIds \ {d} :
                        (/\ calls[c].op = "set"
                         /\ calls[c].pc = "done"
                         /\ calls[c].store = calls[d].store
                         /\ ~calls[c].wasInitialized
                         /\ calls[c].value # Undefined
                         /\ storage[cfg.area][cfg.storeId \o ":" \o calls[c].key]
                               = AtRest(cfg, calls[c].value)) =>
                            storage'[cfg.area][cfg.storeId \o ":" \o calls[c].key]
                               = AtRest(cfg, calls[c].value)]_vars

----------------------------------------------------------------------------
(* C17 *)

\* the step completes the initialization the operation c runs for store s:
\* its read has resolved and, if the read missed a key, so has its write
CompletesInitialize(c, s) ==
    /\ calls'[c].store = s
    /\ ~calls[c].ranInit
    /\ calls'[c].ranInit
    /\ LET log == calls'[c].log
           missing == {ak \in Namespace(stores[s]) :
                          Prop(calls'[c].data, ak) = Undefined}
       IN  /\ Len(log) = IF missing = {} THEN 1 ELSE 2
           /\ \A i \in 1..Len(log) : log[i].ok /\ log[i].phase = "init"
           /\ log[1].fn = "get"
           /\ missing # {} => log[2].fn = "set"

----------------------------------------------------------------------------
(* C18 *)

\* two stores made on the same area with different store ids
DistinctStores(s, t) ==
    /\ s # t
    /\ stores[s].made
    /\ stores[t].made
    /\ stores[s].area = stores[t].area
    /\ stores[s].storeId # stores[t].storeId

\* the actual keys of s and t are disjoint
Disjoint(s, t) == Namespace(stores[s]) \cap Namespace(stores[t]) = {}

\* the step, taken by an operation of store s, changes no value under an
\* actual key of store t and does not reach a listener of store t
LeavesAlone(s, t) ==
    (last'.store = s /\ last'.act # "createStore") =>
        /\ \A h \in Namespace(stores[t]) :
              storage'[stores[t].area][h] = storage[stores[t].area][h]
        /\ \A l \in ListenerIds :
              (listeners[l].used /\ listeners[l].store = t) =>
                  /\ delivered'[l] = delivered[l]
                  /\ \A x \in tasks' \ tasks : x.listener # l

----------------------------------------------------------------------------
(* C19 *)

\* C19: the callback of a listener that unsubscribe has removed from the
\* host's listeners is not invoked again, in plain and in encrypted stores.
C19_NoDeliveryAfterUnsubscribe ==
    [][\A l \in ListenerIds :
          (listeners[l].used /\ l \notin registry) =>
              delivered'[l] = delivered[l]]_vars

----------------------------------------------------------------------------
(* C20 *)

\* C20: the callback of a listener is invoked at most once per event and in
\* the order in which the host dispatched the events, in plain and in
\* encrypted stores; so its last invocation is for the latest of the events
\* it was invoked for.
C20_DeliveryOrder ==
    \A l \in ListenerIds :
        \A i, j \in 1..Len(order[l]) :
            i < j => order[l][i] < order[l][j]

====
